---- MODULE Spec2Model ----
(***************************************************************************)
(* check_opnsense.py: a monitoring check plugin for OPNsense firewalls.   *)
(* One run parses its options, issues one or two HTTPS requests against   *)
(* the API, classifies the decoded payload, prints one verdict line and   *)
(* exits with the ordinal of the severity.                                *)
(*                                                                         *)
(* Python strings are TLA+ strings; the text the program prints is built  *)
(* with the same concatenations the code performs.  JSON values whose     *)
(* Python type matters in a comparison are tagged (JStr, JInt, JAbsent).  *)
(***************************************************************************)
EXTENDS Integers, Sequences, FiniteSets, TLC

VARIABLES mode, pc, check_result, check_message, perfdata,
          requests, responses, stdout, exit_status, uncaught

vars == <<mode, pc, check_result, check_message, perfdata,
          requests, responses, stdout, exit_status, uncaught>>

----------------------------------------------------------------------------
(* Bounds of the payloads the API is made to answer with *)

MaxRows == 3

MaxSections == 2

----------------------------------------------------------------------------
(* Program constants *)

CHECK_API_TIMEOUT == 30

CheckState == [OK |-> 0, WARNING |-> 1, CRITICAL |-> 2, UNKNOWN |-> 3]

Modes == {"updates", "services", "system"}

Command == [updates |-> "core/firmware/status",
            services |-> "core/service/search",
            system |-> "core/system/status"]

get_url(command) == "https://" \o "fw" \o ":" \o ToString(443) \o "/api/" \o command

----------------------------------------------------------------------------
(* JSON values as Python sees them *)

JAbsent == [kind |-> "absent", s |-> "", n |-> 0]

JStr(str) == [kind |-> "str", s |-> str, n |-> 0]

JInt(i) == [kind |-> "int", s |-> "", n |-> i]

RECURSIVE join(_, _)
join(sep, items) ==
    IF items = <<>> THEN ""
    ELSE IF Len(items) = 1 THEN items[1]
    ELSE items[1] \o sep \o join(sep, Tail(items))

----------------------------------------------------------------------------
(* Verdict reporter *)

output_exit0(rc, message) ==
    [line |-> rc \o " - " \o message, status |-> 0]

output(rc, message) ==
    [line |-> rc \o " - " \o message, status |-> CheckState[rc]]

get_perfdata(pd) ==
    IF pd # <<>> THEN "|" \o join(" ", pd) ELSE ""

check_output(result, message, pd) ==
    output(result, IF pd # <<>> THEN message \o get_perfdata(pd) ELSE message)

----------------------------------------------------------------------------
(* HTTP client adapter *)

HttpStatuses == {200, 304, 401, 403, 404, 500}

response_ok(status) == ~(400 <= status /\ status < 600)

Timeouts == [connect : {CHECK_API_TIMEOUT, CHECK_API_TIMEOUT + 1},
             read : {CHECK_API_TIMEOUT, CHECK_API_TIMEOUT + 1}]

timeout_exception(waited) ==
    IF waited.connect > CHECK_API_TIMEOUT THEN "ConnectTimeout"
    ELSE IF waited.read > CHECK_API_TIMEOUT THEN "ReadTimeout"
    ELSE ""

ConnectFailures == {"SSLError", "ConnectionError"}

ExceptionBases == [ConnectTimeout |-> {"ConnectTimeout", "ConnectionError", "Timeout"},
                   ReadTimeout |-> {"ReadTimeout", "Timeout"},
                   SSLError |-> {"SSLError", "ConnectionError"},
                   ConnectionError |-> {"ConnectionError"}]

isinstance(exc, cls) == cls \in ExceptionBases[exc]

except_clauses_timeout_only(exc) ==
    IF isinstance(exc, "ConnectTimeout")
    THEN [caught |-> TRUE,
          out |-> output("UNKNOWN", "Could not connect to OPNsense: Connection timeout")]
    ELSE [caught |-> FALSE, out |-> output("UNKNOWN", "")]

except_clauses(exc) ==
    IF isinstance(exc, "ConnectTimeout")
    THEN [caught |-> TRUE,
          out |-> output("UNKNOWN", "Could not connect to OPNsense: Connection timeout")]
    ELSE IF isinstance(exc, "SSLError")
    THEN [caught |-> TRUE,
          out |-> output("UNKNOWN",
                         "Could not connect to OPNsense: Certificate validation failed")]
    ELSE IF isinstance(exc, "ConnectionError")
    THEN [caught |-> TRUE,
          out |-> output("UNKNOWN",
                         "Could not connect to OPNsense: Failed to resolve hostname")]
    ELSE [caught |-> FALSE, out |-> output("UNKNOWN", "")]

http_error_message_swapped(status) ==
    "Could not fetch data from API: " \o
    (IF status = 403
     THEN "Could not connection to OPNsense: invalid username or password"
     ELSE IF status = 401
     THEN "Access denied. Please check if API user has sufficient permissions."
     ELSE "HTTP error code was " \o ToString(status))

http_error_message(status) ==
    "Could not fetch data from API: " \o
    (IF status = 401
     THEN "Could not connection to OPNsense: invalid username or password"
     ELSE IF status = 403
     THEN "Access denied. Please check if API user has sufficient permissions."
     ELSE "HTTP error code was " \o ToString(status))

----------------------------------------------------------------------------
(* Payloads the API answers with *)

UpdatesPayloads ==
    [status : {JAbsent, JStr("none"), JStr("update"), JStr("upgrade"), JStr("error")},
     status_reboot : {JAbsent, JStr("0"), JStr("1"), JInt(1)},
     status_msg : {JAbsent, JStr("pkg available")}]

ServiceNames == {"a", "b", "c"}

ServiceRows == [name : ServiceNames, running : {0, 1, 2}]

ServicesPayloads ==
    [total : 0..(MaxRows + 1),
     rows : UNION {[1..n -> ServiceRows] : n \in 0..MaxRows}]

SectionNames == {"System", "Firewall", "Disk"}

SectionStatuses == {"OK", "Notice", "Warning", "Error", "Degraded"}

Sections ==
    UNION {[name : {nm}, status : SectionStatuses,
            message : {JAbsent, JStr(nm \o " " \o "fault")}] : nm \in SectionNames}

SystemPayloads ==
    {d \in UNION {[1..n -> Sections] : n \in 0..MaxSections} :
        \A i, j \in DOMAIN d : d[i].name = d[j].name => i = j}

----------------------------------------------------------------------------
(* Response classifiers.  Each yields the exception it raises ("" when it *)
(* returns) and the fields of the verdict as it leaves them.              *)

Returned(result, message, pd) ==
    [raised |-> "", check_result |-> result, check_message |-> message, perfdata |-> pd]

Raised(exc, result, message, pd) ==
    [raised |-> exc, check_result |-> result, check_message |-> message, perfdata |-> pd]

needs_refresh_unless_update(data) ==
    data["status"] \notin {JStr("update"), JStr("upgrade")}

needs_refresh(data) == data["status"] = JStr("none")

has_update(data) == data["status"] \in {JStr("update"), JStr("upgrade")}

needs_reboot_truthy(data) == data["status_reboot"] # JAbsent

needs_reboot(data) == data["status_reboot"] = JStr("1")

classify_updates(data, result, message, pd) ==
    IF has_update(data)
    THEN IF data["status_msg"] = JAbsent
         THEN Raised("KeyError", "WARNING", message, pd)
         ELSE Returned(IF needs_reboot(data) THEN "CRITICAL" ELSE "WARNING",
                       data["status_msg"].s, pd)
    ELSE Returned(result, "System up to date", pd)

SystemStatus == [OK |-> "OK", Notice |-> "OK", Warning |-> "WARNING", Error |-> "CRITICAL"]

HasKey(data, key) == \E i \in DOMAIN data : data[i].name = key

Item(data, key) == data[CHOOSE i \in DOMAIN data : data[i].name = key]

problem_messages(data) ==
    LET problems == SelectSeq(data, LAMBDA sec : sec.message # JAbsent /\ sec.status # "OK")
    IN  [i \in DOMAIN problems |-> problems[i].message.s]

check_system(data, result, message, pd) ==
    IF ~HasKey(data, "System") \/ Item(data, "System").status \notin DOMAIN SystemStatus
    THEN Raised("KeyError", result, message, pd)
    ELSE \* the mapped state is stored in check_message, which both branches overwrite
         IF Item(data, "System").status # "OK"
         THEN Returned(result, join(", ", problem_messages(data)), pd)
         ELSE Returned(result, "No problems were detected.", pd)

is_running_nonzero(row) == row.running # 0

is_running(row) == row.running = 1

running_names(rows) ==
    LET sel == SelectSeq(rows, is_running)
    IN  [i \in DOMAIN sel |-> sel[i].name]

not_running_names(rows) ==
    LET sel == SelectSeq(rows, LAMBDA row : ~is_running(row))
    IN  [i \in DOMAIN sel |-> sel[i].name]

rows_mismatch_never(running, not_running, total) == FALSE

rows_mismatch(running, not_running, total) ==
    Len(running) + Len(not_running) # total

check_services(data, result, message, pd) ==
    LET running == running_names(data.rows)
        not_running == not_running_names(data.rows)
        pd1 == Append(pd, "'running'=" \o ToString(Len(running)) \o ";;;0;"
                          \o ToString(data.total))
    IN  IF rows_mismatch(running, not_running, data.total)
        THEN Raised("RuntimeError", result, message, pd)
        ELSE IF not_running # <<>>
        THEN Returned("WARNING", "Services not running: {', '.join(not_running)}", pd1)
        ELSE Returned(result, "All services are running", pd1)

----------------------------------------------------------------------------
(* The run *)

Request(method, url) == [method |-> method, url |-> url]

ExceptionResponse(exc) == [kind |-> "exception", exc |-> exc, status |-> 0, body |-> JAbsent]

HttpResponse(kind, status, body) == [kind |-> kind, exc |-> "", status |-> status, body |-> body]

InFlight == pc \in {"get_sent", "post_sent"}

Init ==
    /\ mode \in Modes
    /\ pc = "constructed"
    /\ check_result = "UNKNOWN"
    /\ check_message = ""
    /\ perfdata = <<>>
    /\ requests = <<>>
    /\ responses = <<>>
    /\ stdout = <<>>
    /\ exit_status = <<>>
    /\ uncaught = ""

(* print(...) followed by sys.exit(rc.value) *)
Exit(out) ==
    /\ stdout' = Append(stdout, out.line)
    /\ exit_status' = <<out.status>>
    /\ uncaught' = uncaught
    /\ pc' = "exited"

(* an exception nobody catches: traceback on stderr, exit status 1 *)
Traceback(exc) ==
    /\ stdout' = stdout
    /\ exit_status' = <<1>>
    /\ uncaught' = exc
    /\ pc' = "crashed"

(* the classifier has run; check() goes on to check_output() unless it raised *)
Finish(res) ==
    /\ check_result' = res.check_result
    /\ check_message' = res.check_message
    /\ perfdata' = res.perfdata
    /\ IF res.raised # ""
       THEN Traceback(res.raised)
       ELSE Exit(check_output(res.check_result, res.check_message, res.perfdata))

(* check() up to the first requests.get() of the selected mode *)
Check ==
    /\ pc = "constructed"
    /\ check_result' = "OK"
    /\ requests' = Append(requests, Request("get", get_url(Command[mode])))
    /\ pc' = "get_sent"
    /\ UNCHANGED <<mode, check_message, perfdata, responses, stdout, exit_status, uncaught>>

(* requests.get/post gives up after CHECK_API_TIMEOUT seconds *)
RequestTimesOut ==
    /\ InFlight
    /\ \E waited \in Timeouts :
          /\ timeout_exception(waited) # ""
          /\ responses' = Append(responses, ExceptionResponse(timeout_exception(waited)))
          /\ IF except_clauses(timeout_exception(waited)).caught
             THEN Exit(except_clauses(timeout_exception(waited)).out)
             ELSE Traceback(timeout_exception(waited))
    /\ UNCHANGED <<mode, check_result, check_message, perfdata, requests>>

(* requests.get/post fails in TLS or while resolving/connecting *)
RequestConnectFails ==
    /\ InFlight
    /\ \E exc \in ConnectFailures :
          /\ responses' = Append(responses, ExceptionResponse(exc))
          /\ IF except_clauses(exc).caught
             THEN Exit(except_clauses(exc).out)
             ELSE Traceback(exc)
    /\ UNCHANGED <<mode, check_result, check_message, perfdata, requests>>

(* a response arrives whose status makes response.ok false *)
RequestHttpError ==
    /\ InFlight
    /\ \E status \in HttpStatuses :
          /\ ~response_ok(status)
          /\ responses' = Append(responses, HttpResponse("http_error", status, JAbsent))
          /\ Exit(output("UNKNOWN", http_error_message(status)))
    /\ UNCHANGED <<mode, check_result, check_message, perfdata, requests>>

(* response.ok, but response.json() cannot decode the body *)
RequestBadBody ==
    /\ InFlight
    /\ \E status \in HttpStatuses :
          /\ response_ok(status)
          /\ responses' = Append(responses, HttpResponse("undecodable", status, JAbsent))
          /\ Traceback("JSONDecodeError")
    /\ UNCHANGED <<mode, check_result, check_message, perfdata, requests>>

(* check_updates() from the answer to its GET on *)
UpdatesGetResponse ==
    /\ mode = "updates"
    /\ pc = "get_sent"
    /\ \E status \in HttpStatuses, data \in UpdatesPayloads :
          /\ response_ok(status)
          /\ responses' = Append(responses, HttpResponse("json", status, data))
          /\ IF data["status"] = JAbsent
             THEN /\ Finish(Raised("KeyError", check_result, check_message, perfdata))
                  /\ requests' = requests
             ELSE IF needs_refresh(data)
             THEN /\ requests' = Append(requests, Request("post", get_url(Command[mode])))
                  /\ pc' = "post_sent"
                  /\ UNCHANGED <<check_result, check_message, perfdata,
                                 stdout, exit_status, uncaught>>
             ELSE /\ Finish(classify_updates(data, check_result, check_message, perfdata))
                  /\ requests' = requests
    /\ UNCHANGED mode

(* check_updates() from the answer to its refreshing POST on *)
UpdatesPostResponse ==
    /\ mode = "updates"
    /\ pc = "post_sent"
    /\ \E status \in HttpStatuses, data \in UpdatesPayloads :
          /\ response_ok(status)
          /\ responses' = Append(responses, HttpResponse("json", status, data))
          /\ IF data["status"] = JAbsent
             THEN Finish(Raised("KeyError", check_result, check_message, perfdata))
             ELSE Finish(classify_updates(data, check_result, check_message, perfdata))
    /\ UNCHANGED <<mode, requests>>

(* check_system() from the answer to its GET on *)
SystemResponse ==
    /\ mode = "system"
    /\ pc = "get_sent"
    /\ \E status \in HttpStatuses, data \in SystemPayloads :
          /\ response_ok(status)
          /\ responses' = Append(responses, HttpResponse("json", status, data))
          /\ Finish(check_system(data, check_result, check_message, perfdata))
    /\ UNCHANGED <<mode, requests>>

(* check_services() from the answer to its GET on *)
ServicesResponse ==
    /\ mode = "services"
    /\ pc = "get_sent"
    /\ \E status \in HttpStatuses, data \in ServicesPayloads :
          /\ response_ok(status)
          /\ responses' = Append(responses, HttpResponse("json", status, data))
          /\ Finish(check_services(data, check_result, check_message, perfdata))
    /\ UNCHANGED <<mode, requests>>

Next ==
    \/ Check
    \/ RequestTimesOut
    \/ RequestConnectFails
    \/ RequestHttpError
    \/ RequestBadBody
    \/ UpdatesGetResponse
    \/ UpdatesPostResponse
    \/ SystemResponse
    \/ ServicesResponse

Spec == Init /\ [][Next]_vars

----------------------------------------------------------------------------
(* Reading the run's history and its output *)

StartsWith(str, prefix) ==
    Len(str) >= Len(prefix) /\ SubSeq(str, 1, Len(prefix)) = prefix

EndsWith(str, suffix) ==
    Len(str) >= Len(suffix) /\ SubSeq(str, Len(str) - Len(suffix) + 1, Len(str)) = suffix

Contains(str, part) ==
    \E i \in 1..(Len(str) - Len(part) + 1) : SubSeq(str, i, i + Len(part) - 1) = part

Ended == pc \in {"exited", "crashed"}

LastResponse == responses[Len(responses)]

Decoded == responses # <<>> /\ LastResponse.kind = "json"

Verdict(severity) ==
    /\ pc = "exited"
    /\ Len(stdout) = 1
    /\ StartsWith(stdout[1], severity \o " - ")
    /\ exit_status = <<CheckState[severity]>>

FirmwareUrl == "https://fw:443/api/core/firmware/status"

----------------------------------------------------------------------------
(* C1: whenever a verdict line has been printed, it is the only line, the  *)
(* run has exited, the line starts with the name of exactly one severity   *)
(* and the exit status is that severity's ordinal; after the line nothing  *)
(* more is printed and no request is made.                                 *)
C1_ExitStatusIsOrdinal ==
    /\ [](stdout # <<>> =>
            /\ Len(stdout) = 1
            /\ pc = "exited"
            /\ \E sev \in DOMAIN CheckState : StartsWith(stdout[1], sev \o " - ")
            /\ \A sev \in DOMAIN CheckState :
                  StartsWith(stdout[1], sev \o " - ") => exit_status = <<CheckState[sev]>>)
    /\ [][stdout # <<>> => UNCHANGED <<stdout, requests, exit_status>>]_vars

C1_Witness ==
    /\ pc = "exited"
    /\ StartsWith(stdout[1], "CRITICAL - ")
    /\ exit_status = <<2>>

(* C2: in updates mode the payload classified is the first one, or the     *)
(* refreshed one when the first said "none"; update/upgrade with           *)
(* status_reboot "1" gives CRITICAL, update/upgrade otherwise gives        *)
(* WARNING, both with the payload's status_msg as the message; any other   *)
(* status gives OK "System up to date".                                    *)
C2_UpdatesClassification ==
    (mode = "updates" /\ Ended /\ Decoded /\ LastResponse.body["status"] # JAbsent) =>
        LET data == LastResponse.body
        IN  /\ Len(responses) = 2 => responses[1].body["status"] = JStr("none")
            /\ Len(responses) = 1 => data["status"] # JStr("none")
            /\ IF data["status"] \in {JStr("update"), JStr("upgrade")}
               THEN data["status_msg"] # JAbsent =>
                      IF data["status_reboot"] = JStr("1")
                      THEN /\ stdout = <<"CRITICAL - " \o data["status_msg"].s>>
                           /\ exit_status = <<2>>
                      ELSE /\ stdout = <<"WARNING - " \o data["status_msg"].s>>
                           /\ exit_status = <<1>>
               ELSE /\ stdout = <<"OK - System up to date">>
                    /\ exit_status = <<0>>

C2_Witness ==
    /\ mode = "updates"
    /\ Len(responses) = 2
    /\ Decoded
    /\ LastResponse.body["status"] = JStr("update")
    /\ stdout = <<"WARNING - pkg available">>
    /\ exit_status = <<1>>

(* C3: in system mode the verdict's severity and the exit status are the   *)
(* image of System.status under OK -> OK, Notice -> OK, Warning -> WARNING,*)
(* Error -> CRITICAL.                                                      *)
C3_SystemSeverityMapped ==
    (/\ mode = "system" /\ Ended /\ Decoded
     /\ HasKey(LastResponse.body, "System")
     /\ Item(LastResponse.body, "System").status \in {"OK", "Notice", "Warning", "Error"}) =>
        LET status == Item(LastResponse.body, "System").status
        IN  Verdict(CASE status = "Warning" -> "WARNING"
                      [] status = "Error" -> "CRITICAL"
                      [] OTHER -> "OK")

(* C4: in services mode, when the rows agree with total, the verdict is    *)
(* WARNING iff some row has running != 1 and otherwise OK "All services    *)
(* are running"; exactly one metric is emitted, 'running'=N;;;0;total with *)
(* N the number of rows whose running is 1.                                *)
C4_ServicesVerdictAndMetric ==
    (/\ mode = "services" /\ Ended /\ Decoded
     /\ Len(LastResponse.body.rows) = LastResponse.body.total) =>
        LET rows == LastResponse.body.rows
            up == Cardinality({i \in DOMAIN rows : rows[i].running = 1})
            metric == "'running'=" \o ToString(up) \o ";;;0;"
                      \o ToString(LastResponse.body.total)
        IN  /\ perfdata = <<metric>>
            /\ EndsWith(stdout[1], "|" \o metric)
            /\ IF \E i \in DOMAIN rows : rows[i].running # 1
               THEN Verdict("WARNING")
               ELSE /\ Verdict("OK")
                    /\ stdout = <<"OK - All services are running|" \o metric>>

C4_Witness ==
    /\ mode = "services"
    /\ Decoded
    /\ LastResponse.body.total = 3
    /\ LastResponse.body.rows = <<[name |-> "a", running |-> 1],
                                  [name |-> "b", running |-> 0],
                                  [name |-> "c", running |-> 1]>>
    /\ Verdict("WARNING")
    /\ EndsWith(stdout[1], "|'running'=2;;;0;3")

(* C5: in services mode, when some service is not running, the message of  *)
(* the verdict lists the name of every row with running != 1 and lists no  *)
(* service all of whose rows are running.                                  *)
C5_NotRunningNamesListed ==
    (/\ mode = "services" /\ pc = "exited" /\ Decoded
     /\ \E i \in DOMAIN LastResponse.body.rows : LastResponse.body.rows[i].running # 1) =>
        LET rows == LastResponse.body.rows
            head == "WARNING - Services not running: "
            tail == get_perfdata(perfdata)
            listed == SubSeq(stdout[1], Len(head) + 1, Len(stdout[1]) - Len(tail))
        IN  /\ StartsWith(stdout[1], head)
            /\ \A i \in DOMAIN rows :
                  rows[i].running # 1 => Contains(listed, rows[i].name)
            /\ \A nm \in ServiceNames :
                  (\A i \in DOMAIN rows : rows[i].name = nm => rows[i].running = 1)
                     => ~Contains(listed, nm)

(* C6: on any request of the run, a response with status 403 ends the run *)
(* with UNKNOWN, exit status 3 and a message containing "insufficient      *)
(* permissions"; 401 likewise with "invalid username or password"; any     *)
(* other status outside 200..299 with "HTTP error code was {status}".      *)
C6_HttpErrorMessages ==
    \A i \in DOMAIN responses :
        (responses[i].kind # "exception" /\ responses[i].status \notin 200..299) =>
            /\ i = Len(responses)
            /\ Verdict("UNKNOWN")
            /\ Contains(stdout[1],
                  CASE responses[i].status = 403 -> "insufficient permissions"
                    [] responses[i].status = 401 -> "invalid username or password"
                    [] OTHER -> "HTTP error code was " \o ToString(responses[i].status))

(* C6 as amended: status 403 gives UNKNOWN with a message containing       *)
(* "sufficient permissions", 401 gives UNKNOWN with "invalid username or   *)
(* password", and any other status in 400..599 gives UNKNOWN with "HTTP    *)
(* error code was {status}", on the first request as on the refresh.       *)
C6_HttpErrorMessagesAmended ==
    \A i \in DOMAIN responses :
        (responses[i].kind # "exception" /\ responses[i].status \in 400..599) =>
            /\ i = Len(responses)
            /\ Verdict("UNKNOWN")
            /\ Contains(stdout[1],
                  CASE responses[i].status = 403 -> "sufficient permissions"
                    [] responses[i].status = 401 -> "invalid username or password"
                    [] OTHER -> "HTTP error code was " \o ToString(responses[i].status))

C6_Witness ==
    /\ mode = "updates"
    /\ Len(responses) = 2
    /\ LastResponse.status = 403
    /\ Verdict("UNKNOWN")
    /\ Contains(stdout[1], "Access denied")

TransportFailure(r) ==
    \/ r.kind = "exception" /\ r.exc \in {"SSLError", "ConnectionError"}
    \/ r.kind = "http_error"

(* C7: a request that fails in TLS, in resolving or connecting, or with an *)
(* HTTP error status is the last request of the run: the run exits with    *)
(* UNKNOWN and status 3, and the printed line carries no message or metric *)
(* of a classifier, nor anything the first payload of updates mode said.   *)
C7_TransportFailureIsTerminal ==
    \A i \in DOMAIN responses :
        TransportFailure(responses[i]) =>
            /\ i = Len(responses)
            /\ Len(requests) = i
            /\ Verdict("UNKNOWN")
            /\ exit_status = <<3>>
            /\ check_message = ""
            /\ perfdata = <<>>
            /\ ~Contains(stdout[1], "|")
            /\ ~Contains(stdout[1], "System up to date")
            /\ \A j \in 1..(i - 1) :
                  responses[j].body["status_msg"] # JAbsent =>
                     ~Contains(stdout[1], responses[j].body["status_msg"].s)

C7_Witness ==
    /\ mode = "updates"
    /\ Len(responses) = 2
    /\ responses[1].body["status_msg"] # JAbsent
    /\ LastResponse.exc = "SSLError"
    /\ Verdict("UNKNOWN")

(* C8: a request that runs into the 30-second timeout, while connecting or *)
(* while waiting for the response, fails as ConnectTimeout and ends the    *)
(* run with an UNKNOWN verdict containing "Connection timeout" and exit    *)
(* status 3.                                                               *)
C8_TimeoutIsUnknown ==
    \A i \in DOMAIN responses :
        (responses[i].kind = "exception" /\ responses[i].exc \in {"ConnectTimeout", "ReadTimeout"}) =>
            /\ Verdict("UNKNOWN")
            /\ Contains(stdout[1], "Connection timeout")
            /\ exit_status = <<3>>

(* C9: in services mode a payload whose rows do not add up to total aborts *)
(* the run: no verdict line, no metric, and an uncaught RuntimeError in    *)
(* place of any of the four verdicts.                                      *)
C9_RowsMismatchAborts ==
    (/\ mode = "services" /\ Decoded
     /\ Len(LastResponse.body.rows) # LastResponse.body.total) =>
        /\ pc = "crashed"
        /\ stdout = <<>>
        /\ perfdata = <<>>
        /\ uncaught = "RuntimeError"
        /\ \A sev \in DOMAIN CheckState : ~Verdict(sev)

C9_Witness ==
    /\ mode = "services"
    /\ Decoded
    /\ Len(LastResponse.body.rows) = 2
    /\ LastResponse.body.total = 3
    /\ pc = "crashed"

(* C10: a run makes at most two requests; services and system mode make    *)
(* exactly one GET; updates mode makes one GET to core/firmware/status and *)
(* then one POST to the same URL iff the first payload's status is "none"; *)
(* a refreshed payload that is "none" again is classified as it is.        *)
C10_AtMostTwoRequests ==
    /\ Len(requests) <= 2
    /\ Len(responses) <= Len(requests)
    /\ (mode \in {"services", "system"} /\ pc # "constructed") =>
          /\ Len(requests) = 1
          /\ requests[1].method = "get"
    /\ (mode = "updates" /\ pc # "constructed") =>
          /\ requests[1] = Request("get", FirmwareUrl)
          /\ responses = <<>> => Len(requests) = 1
          /\ responses # <<>> =>
                (Len(requests) = 2 <=>
                    /\ responses[1].kind = "json"
                    /\ responses[1].body["status"] = JStr("none"))
          /\ Len(requests) = 2 => requests[2] = Request("post", FirmwareUrl)
          /\ (/\ Len(responses) = 2 /\ Decoded
              /\ LastResponse.body["status"] = JStr("none")) =>
                /\ pc = "exited"
                /\ stdout = <<"OK - System up to date">>

C10_Witness ==
    /\ mode = "updates"
    /\ Len(requests) = 2
    /\ Len(responses) = 2
    /\ Decoded
    /\ LastResponse.body["status"] = JStr("none")
    /\ pc = "exited"

====
